---------------------------- MODULE Spec2Model ----------------------------
(***************************************************************************)
(* A model of the comparison engine of DeliberativePolling (Functions.py). *)
(*                                                                         *)
(* Names (group, time, weight-scheme and variable names) are Python        *)
(* strings; they are modelled as sequences of one-character strings so     *)
(* that concatenation (+), lower() and the substring test (in) are         *)
(* computed as Python computes them.                                       *)
(***************************************************************************)
EXTENDS Integers, Sequences, FiniteSets, TLC

(***************************************************************************)
(* Bounds of the model.                                                    *)
(***************************************************************************)
\* Largest number of rows of the dataset read by analysis().
MaxRows == 2
\* Largest number of nominal variables of the codebook (besides Group, Time).
MaxNominal == 2
\* Largest number of ordinal variables of the codebook.
MaxOrdinal == 2
\* Number of respondent identifiers of the data test_t() is called on.
MaxRespondents == 2
\* Largest number of breakdown columns (per block) of the table
\* ordinal_summary() is called on.
MaxBreakdown == 2
\* Largest number of rows of a side nominal_crosstab() is called on.
MaxSideRows == 2
\* Largest numbers of columns and of rows of the tables combine_crosstabs()
\* is called on.
MaxColumns == 2
MaxTableRows == 2

(***************************************************************************)
(* Strings.                                                                *)
(***************************************************************************)
Unweighted == <<"U", "n", "w", "e", "i", "g", "h", "t", "e", "d">>
WeightWord == <<"w", "e", "i", "g", "h", "t">>
GroupCol == <<"G", "r", "o", "u", "p">>
TimeCol == <<"T", "i", "m", "e">>
IDsCol == <<"I", "D", "s">>

\* Names a dataset of the model may use.
Control == <<"C", "o", "n", "t", "r", "o", "l">>
Treatment == <<"T", "r", "e", "a", "t", "m", "e", "n", "t">>
ControlUn == <<"C", "o", "n", "t", "r", "o", "l", "U", "n">>
Pre == <<"P", "r", "e">>
Post == <<"P", "o", "s", "t">>
weighted == <<"w", "e", "i", "g", "h", "t", "e", "d">>
Weight2 == <<"W", "e", "i", "g", "h", "t", "2">>
Age == <<"A", "g", "e">>

Groups == {Control, Treatment, ControlUn}
Times == {Pre, Post}
ScaleFields == <<weighted, Age, Weight2>>

\* str.lower() on the letters the model's names use.
LowerChar(c) ==
    CASE c = "A" -> "a" [] c = "C" -> "c" [] c = "D" -> "d" [] c = "G" -> "g"
      [] c = "I" -> "i" [] c = "P" -> "p" [] c = "Q" -> "q" [] c = "R" -> "r"
      [] c = "T" -> "t" [] c = "U" -> "u" [] c = "W" -> "w" [] OTHER -> c

Lower(s) == [i \in 1..Len(s) |-> LowerChar(s[i])]

\* Python's `sub in s` for strings.
Contains(sub, s) ==
    \E i \in 0..(Len(s) - Len(sub)) : SubSeq(s, i + 1, i + Len(sub)) = sub

(***************************************************************************)
(* Sequence helpers.                                                       *)
(***************************************************************************)
RECURSIVE SelectSeqBy(_, _)
\* [x for x in s if x in keep], for a set keep.
SelectSeqBy(s, keep) ==
    IF s = <<>> THEN <<>>
    ELSE (IF Head(s) \in keep THEN <<Head(s)>> ELSE <<>>)
         \o SelectSeqBy(Tail(s), keep)

Range(s) == {s[i] : i \in 1..Len(s)}

RECURSIVE Unique(_)
\* pandas Series.unique(): the distinct values in order of first appearance.
Unique(s) ==
    IF s = <<>> THEN <<>>
    ELSE LET init == Unique(SubSeq(s, 1, Len(s) - 1))
             last == s[Len(s)]
         IN IF last \in Range(init) THEN init ELSE Append(init, last)

RECURSIVE Flatten(_)
Flatten(ss) == IF ss = <<>> THEN <<>> ELSE Head(ss) \o Flatten(Tail(ss))

\* Sequences over S of length at most n.
SeqUpTo(S, n) == UNION {[1..k -> S] : k \in 0..n}

(***************************************************************************)
(* The codebook (pyreadstat metadata).  variable_measure is a dict, which  *)
(* keeps insertion order: a sequence of <<name, measure>> pairs.           *)
(***************************************************************************)
Digits == <<"1", "2", "3", "4", "5">>
NominalName(i) == <<"Q", Digits[i]>>
OrdinalName(i) == <<"R", Digits[i]>>

Codebook(scales, nNominal, nOrdinal) ==
    <<  <<IDsCol, "scale">>, <<GroupCol, "nominal">>, <<TimeCol, "nominal">> >>
    \o [i \in 1..nNominal |-> <<NominalName(i), "nominal">>]
    \o [i \in 1..nOrdinal |-> <<OrdinalName(i), "ordinal">>]
    \o [i \in 1..Len(scales) |-> <<scales[i], "scale">>]

\* [key for key, measure in variable_measure.items() if measure == m]
KeysWithMeasure(vm, m) ==
    LET picked == SelectSeqBy(vm, {e \in Range(vm) : e[2] = m})
    IN [i \in 1..Len(picked) |-> picked[i][1]]

\* A pop that removes nothing.
PopMutant(vm, key) == vm

\* dict.pop(key, None) on the ordered mapping.
Pop(vm, key) == SelectSeqBy(vm, {e \in Range(vm) : e[1] # key})

(***************************************************************************)
(* State.                                                                  *)
(***************************************************************************)
VARIABLES
    values,              \* the dataset: a sequence of rows [Group, Time]
    variable_measure,    \* codebook.variable_measure (shared by all samples)
    tables,              \* whether this run follows the analysis_tables calls
    weights,             \* analysis(): weights
    sample_comparisons,  \* analysis(): sample_comparisons
    pc,                  \* where analysis() is
    ci,                  \* index of the comparison the for loop is at
    sample,              \* the class `sample` of the current iteration
    type,                \* analysis_tables(): type
    nominal_variables,   \* analysis_tables(): nominal_variables
    ordinal_variables,   \* analysis_tables(): ordinal_variables
    ni,                  \* index of the nominal variable of the outer loop
    oi,                  \* index of the ordinal variable of the inner loop
    crosstabs,           \* sample.crosstabs, the accumulated table
    summaries,           \* sample.summaries, the accumulated narrative rows
    written,             \* what the current analysis_tables call handed to
                         \* write_xlsx and write_docx, in order
    pops,                \* how often lines 76-77 were executed in this run
    removals,            \* how often they changed variable_measure
    tsample,             \* test_t(): sample (paired, and per side the group,
                         \* the weight scheme and the filtered rows)
    entries,             \* full_entries(): the four *_filtered vectors
    P,                   \* test_t(): P
    report,              \* test_t(): (mean1, mean2, mean_difference)
    tpc,                 \* where the call of test_t is
    summary_crosstab,    \* ordinal_summary(): sample.paired and sample.crosstab
    summary_statement,   \* ordinal_summary(): the statement it returns
    spc,                 \* where the call of ordinal_summary is
    plurality_percentages, \* plurality(): the column it is given
    dominant,            \* plurality(): (value, numeric, kind)
    ppc,                 \* where the call of plurality is
    chi_sample,          \* nominal_crosstab(): the two sides' weight and labels
    chi_crosstab,        \* nominal_crosstab(): the two displayed columns
    observed,            \* test_chi(): side one's weighted counts
    expected,            \* test_chi(): side two's weighted counts
    chi_result,          \* test_chi(): what it returns
    cpc,                 \* where the call of nominal_crosstab is
    new_crosstab,           \* combine_crosstabs(): the new table
    accumulated,           \* combine_crosstabs(): the accumulated table
    combined,            \* combine_crosstabs(): the table it returns
    ccpc,                \* where the call of combine_crosstabs is
    answers,             \* plurality_comparison(): the two sides' answer counts
    column_one,          \* plurality_comparison(): percentages1
    column_two,          \* plurality_comparison(): percentages2
    comparison,          \* plurality_comparison(): what it returns
    dpc                  \* where the call of plurality_comparison is

enumVars == <<values, variable_measure, tables, weights, sample_comparisons,
              pc, ci, sample>>

tableVars == <<type, nominal_variables, ordinal_variables, ni, oi, crosstabs,
               summaries, written, pops, removals>>

testVars == <<tsample, entries, P, report, tpc>>

summaryVars == <<summary_crosstab, summary_statement, spc>>

pluralityVars == <<plurality_percentages, dominant, ppc>>

chiVars == <<chi_sample, chi_crosstab, observed, expected, chi_result, cpc>>

combineVars == <<new_crosstab, accumulated, combined, ccpc>>

comparisonVars == <<answers, column_one, column_two, comparison, dpc>>

unitVars ==
    <<testVars, summaryVars, pluralityVars, chiVars, combineVars, comparisonVars>>

vars == <<enumVars, tableVars, unitVars>>

NoSubsample == [group |-> <<>>, time |-> <<>>, weight |-> <<>>, name |-> <<>>,
                values |-> <<>>]

NoSample == [one |-> NoSubsample, two |-> NoSubsample, paired |-> FALSE]

(***************************************************************************)
(* analysis(): the enumeration of the comparisons.                         *)
(***************************************************************************)
\* weights = ["Unweighted"] + [var for var in scale_variables
\*                             if "weight" in var.lower()]
Weights(vm) ==
    LET scale_variables == KeysWithMeasure(vm, "scale")
    IN <<Unweighted>>
       \o SelectSeqBy(scale_variables,
                      {v \in Range(scale_variables) : Contains(WeightWord, Lower(v))})

\* itertools.product(gs, ts, ws), in its order (the last factor varies fastest).
Product(gs, ts, ws) ==
    Flatten([g \in 1..Len(gs) |->
        Flatten([t \in 1..Len(ts) |->
            [w \in 1..Len(ws) |-> <<gs[g], ts[t], ws[w]>>]])])

\* combinations_with_replacement in place of combinations.
Combinations2Mutant(s) ==
    Flatten([i \in 1..Len(s) |->
        [k \in 1..(Len(s) - i + 1) |-> <<s[i], s[i + k - 1]>>]])

\* itertools.combinations(s, 2), in its order: (s[i], s[j]) for i < j.
Combinations2(s) ==
    Flatten([i \in 1..Len(s) |->
        [k \in 1..(Len(s) - i) |-> <<s[i], s[i + k]>>]])

\* The filter of the comprehension:
\* not (comb[0][0] == comb[1][0] and comb[0][2] != comb[1][2])
KeepsMutant(comb) == ~(comb[1][1] = comb[2][1] /\ comb[1][2] # comb[2][2])

Keeps(comb) == ~(comb[1][1] = comb[2][1] /\ comb[1][3] # comb[2][3])

Column(rows, field) == [i \in 1..Len(rows) |-> rows[i][field]]

SampleComparisons(rows, ws) ==
    LET all == Combinations2(Product(Unique(Column(rows, "Group")),
                                     Unique(Column(rows, "Time")), ws))
    IN SelectSeqBy(all, {c \in Range(all) : Keeps(c)})

(***************************************************************************)
(* class subsample and the class `sample` built per comparison.            *)
(***************************************************************************)
AtWord == <<" ", "a", "t", " ">>

\* values[(values["Group"] == group) & (values["Time"] == time)]
FilterRows(rows, group, time) ==
    SelectSeqBy(rows, {r \in Range(rows) : r.Group = group /\ r.Time = time})

Subsample(group, time, weight, rows) ==
    [group |-> group, time |-> time, weight |-> weight,
     name |-> group \o AtWord \o time,
     values |-> FilterRows(rows, group, time)]

\* paired = one.group + one.weight == two.group + two.weight
Paired(one, two) == one.group \o one.weight = two.group \o two.weight

Sample(comb, rows) ==
    LET one == Subsample(comb[1][1], comb[1][2], comb[1][3], rows)
        two == Subsample(comb[2][1], comb[2][2], comb[2][3], rows)
    IN [one |-> one, two |-> two, paired |-> Paired(one, two)]

(***************************************************************************)
(* Actions of analysis().                                                  *)
(***************************************************************************)
Rows == [Group : Groups, Time : Times]

ScaleChoices == {SelectSeqBy(ScaleFields, S) : S \in SUBSET Range(ScaleFields)}

\* A run that stops at the construction of each sample: any dataset of at
\* most MaxRows rows, any choice of scale fields.
EmptyFrame == [columns |-> <<>>, rows |-> <<>>]

NaN == -1

NoCell == [isstr |-> FALSE, na |-> TRUE, num |-> 0, hasP |-> FALSE, P |-> 0]

InitTestIdle ==
    /\ tsample = <<>>
    /\ entries = <<>>
    /\ P = NaN
    /\ report = <<>>
    /\ tpc = "idle"

InitSummaryIdle ==
    /\ summary_crosstab = <<>>
    /\ summary_statement = <<>>
    /\ spc = "idle"

InitPluralityIdle ==
    /\ plurality_percentages = <<>>
    /\ dominant = <<>>
    /\ ppc = "idle"

InitChiIdle ==
    /\ chi_sample = <<>>
    /\ chi_crosstab = <<>>
    /\ observed = <<>>
    /\ expected = <<>>
    /\ chi_result = <<>>
    /\ cpc = "idle"

InitCombineIdle ==
    /\ new_crosstab = <<>>
    /\ accumulated = <<>>
    /\ combined = <<>>
    /\ ccpc = "idle"

InitComparisonIdle ==
    /\ answers = <<>>
    /\ column_one = <<>>
    /\ column_two = <<>>
    /\ comparison = <<>>
    /\ dpc = "idle"

InitUnits ==
    /\ InitTestIdle
    /\ InitSummaryIdle
    /\ InitPluralityIdle
    /\ InitChiIdle
    /\ InitCombineIdle
    /\ InitComparisonIdle

InitAnalysis ==
    /\ weights = <<>>
    /\ sample_comparisons = <<>>
    /\ pc = "start"
    /\ ci = 0
    /\ sample = NoSample
    /\ type = "Nominal"
    /\ nominal_variables = <<>>
    /\ ordinal_variables = <<>>
    /\ ni = 0
    /\ oi = 0
    /\ crosstabs = EmptyFrame
    /\ summaries = <<>>
    /\ written = <<>>
    /\ pops = 0
    /\ removals = 0

InitRest == InitAnalysis /\ InitUnits

InitEnum ==
    /\ values \in SeqUpTo(Rows, MaxRows)
    /\ \E sc \in ScaleChoices : variable_measure = Codebook(sc, 1, 1)
    /\ tables = FALSE
    /\ InitRest

\* Lines 26-44: the weights and the list of comparisons.
Enumerate ==
    /\ pc = "start"
    /\ weights' = Weights(variable_measure)
    /\ sample_comparisons' = SampleComparisons(values, Weights(variable_measure))
    /\ ci' = 1
    /\ pc' = "loop"
    /\ UNCHANGED <<values, variable_measure, tables, sample, tableVars>>
    /\ UNCHANGED unitVars

\* Lines 46-64: one iteration of the for loop builds the class `sample`.
ConstructSample ==
    /\ pc = "loop"
    /\ ci <= Len(sample_comparisons)
    /\ sample' = Sample(sample_comparisons[ci], values)
    /\ IF tables
       THEN /\ pc' = "tables"
            /\ ci' = ci
       ELSE /\ pc' = "loop"
            /\ ci' = ci + 1
    /\ type' = "Nominal"
    /\ UNCHANGED <<values, variable_measure, tables, weights, sample_comparisons,
                   nominal_variables, ordinal_variables, ni, oi, crosstabs,
                   summaries, written, pops, removals>>
    /\ UNCHANGED unitVars

\* Line 69: the loop is over.
Complete ==
    /\ pc = "loop"
    /\ ci > Len(sample_comparisons)
    /\ pc' = "done"
    /\ UNCHANGED <<values, variable_measure, tables, weights, sample_comparisons,
                   ci, sample, tableVars>>
    /\ UNCHANGED unitVars

NextEnum == Enumerate \/ ConstructSample \/ Complete

SpecEnum == InitEnum /\ [][NextEnum]_vars

(***************************************************************************)
(* Claims about the enumeration (checked under SpecEnum).                  *)
(***************************************************************************)
SampleBuilt == sample # NoSample

\* The 2-combinations of the product that analysis() filters.
Candidates ==
    Combinations2(Product(Unique(Column(values, "Group")),
                          Unique(Column(values, "Time")), weights))

\* C1: no enumerated comparison has two sides with the same group and
\* different weight schemes, in the list and in the sample built from it.
C1_NoSameGroupOtherWeight ==
    /\ \A i \in 1..Len(sample_comparisons) :
          sample_comparisons[i][1][1] = sample_comparisons[i][2][1]
              => sample_comparisons[i][1][3] = sample_comparisons[i][2][3]
    /\ SampleBuilt /\ sample.one.group = sample.two.group
          => sample.one.weight = sample.two.weight

\* C1 witness: several weight schemes, the filter dropped candidates, and a
\* sample whose sides share the group was built.
C1_Witness ==
    /\ SampleBuilt
    /\ Len(weights) >= 2
    /\ Len(sample_comparisons) < Len(Candidates)
    /\ sample.one.group = sample.two.group
    /\ sample.one.weight # Unweighted

\* C2 (as claimed): paired is true exactly when both sides have the same
\* group and the same weight scheme.
C2_PairedIffSameGroupAndWeight ==
    SampleBuilt =>
        (sample.paired <=> (sample.one.group = sample.two.group
                            /\ sample.one.weight = sample.two.weight))

TwoByTwoOneWeight ==
    /\ pc # "start"
    /\ Range(Column(values, "Group")) = {Control, Treatment}
    /\ Range(Column(values, "Time")) = {Pre, Post}
    /\ Len(weights) = 2

\* C3 (as claimed): two groups, two times and one weight field give exactly
\* 2 comparisons.
C3_ExactlyTwo == TwoByTwoOneWeight => Len(sample_comparisons) = 2

\* C3 (amended): two groups, two times and one weight field give exactly
\* 20 comparisons: the 28 pairs of the 8 triples less the 8 pairs with the
\* same group and different weight schemes.
C3_ExactlyTwenty == TwoByTwoOneWeight => Len(sample_comparisons) = 20

C3_Witness == TwoByTwoOneWeight /\ pc = "done"

\* C4 (as claimed): every side of an enumerated comparison has a (group,
\* time) pair observed in some row of the dataset, so it has rows.
C4_SidesObserved ==
    SampleBuilt => Len(sample.one.values) > 0 /\ Len(sample.two.values) > 0

(***************************************************************************)
(* Tables.  A DataFrame is a record [columns, rows].  A column header is   *)
(* [label, side]: side 1 or 2 stands for the add_sample_size() decoration  *)
(* "<label> (n = <number of rows of that side with that label>)", side 0   *)
(* for the bare label.  A row is [by, variable, label]: the breakdown      *)
(* (nominal) variable it was computed for, the variable of its block and   *)
(* its index label.  Cell values are not part of this view of a table.     *)
(***************************************************************************)
Header(label, side) == [label |-> label, side |-> side]

VariableHeader == Header(<<"Variable">>, 0)
LabelValuesHeader == Header(<<"Label, Values">>, 0)
ValuesHeader == Header(<<"Values">>, 0)
AllLabel == <<"All">>
DKNA == <<"DK/NA">>
MeansLabel == <<"means">>
Difference == <<"Difference">>

Reverse(s) == [i \in 1..Len(s) |-> s[Len(s) + 1 - i]]

IndexOf(s, x) == CHOOSE i \in 1..Len(s) : s[i] = x

\* metadata.variable_value_labels: the declared categories of a variable.
\* The first two nominal variables have two categories, later ones three;
\* the i-th ordinal variable has i + 1 categories.
ValueLabels(variable) ==
    IF variable[1] = "Q"
    THEN [j \in 1..(IF IndexOf(Digits, variable[2]) <= 2 THEN 2 ELSE 3)
             |-> <<"c", Digits[j]>>]
    ELSE [j \in 1..(IndexOf(Digits, variable[2]) + 1) |-> <<"l", Digits[j]>>]

\* The columns of create_crosstab(type="Ordinal", ...): pd.crosstab with
\* margins puts "All" last, and .iloc[:, ::-1] reverses the columns.
BreakdownColumns(nominal_variable) ==
    Reverse(ValueLabels(nominal_variable) \o <<AllLabel>>)

CombineCrosstabsMutant(crosstab1, crosstab2) ==
    [columns |-> crosstab1.columns, rows |-> crosstab1.rows]

\* combine_crosstabs (lines 522-534).
CombineCrosstabs(crosstab1, crosstab2) ==
    LET second == IF Len(crosstab1.columns) # Len(crosstab2.columns)
                  THEN [columns |-> crosstab1.columns, rows |-> <<>>]
                  ELSE crosstab2
    IN [columns |-> crosstab1.columns, rows |-> crosstab1.rows \o second.rows]

\* add_crosstab_tests (lines 478-519) on the three blocks of percentages:
\* the headers of the first two blocks get their sample sizes, the third
\* block keeps the bare labels, and the means row goes on top.
AddCrosstabTests(nominal_variable, ordinal_variable) ==
    LET filters == BreakdownColumns(nominal_variable)
        header == [i \in 1..Len(filters) |-> Header(filters[i], 1)]
                  \o [i \in 1..Len(filters) |-> Header(filters[i], 2)]
                  \o [i \in 1..Len(filters) |-> Header(filters[i], 0)]
        labels_ordered == ValueLabels(ordinal_variable) \o <<DKNA>>
        means == [columns |-> header,
                  rows |-> << [by |-> nominal_variable,
                               variable |-> ordinal_variable,
                               label |-> MeansLabel] >>]
        percentages ==
            [columns |-> header,
             rows |-> [i \in 1..Len(labels_ordered) |->
                          [by |-> nominal_variable,
                           variable |-> ordinal_variable,
                           label |-> labels_ordered[i]]]]
    IN CombineCrosstabs(means, percentages)

\* ordinal_crosstab (lines 219-268): reset_index() and insert() put the
\* columns "Variable" and "Label, Values" in front.
OrdinalCrosstab(nominal_variable, ordinal_variable) ==
    LET tested == AddCrosstabTests(nominal_variable, ordinal_variable)
    IN [columns |-> <<VariableHeader, LabelValuesHeader>> \o tested.columns,
        rows |-> tested.rows]

\* ordinal_summary, line 273: set_index("Label, Values", inplace=True) moves
\* that column of sample.crosstab into the index.
SetIndexLabelValues(crosstab) ==
    [columns |-> SelectSeqBy(crosstab.columns,
                             Range(crosstab.columns) \ {LabelValuesHeader}),
     rows |-> crosstab.rows]

\* nominal_crosstab (lines 170-216): one row per category of the variable
\* (every declared category taken as observed on both sides).
NominalCrosstab(smp, nominal_variable) ==
    [columns |-> <<VariableHeader, ValuesHeader,
                   Header(smp.one.name, 1), Header(smp.two.name, 2)>>,
     rows |-> [i \in 1..Len(ValueLabels(nominal_variable)) |->
                  [by |-> nominal_variable, variable |-> nominal_variable,
                   label |-> ValueLabels(nominal_variable)[i]]]]

\* Lines 123-137: the second header row over the accumulated columns, as
\* the list of (second_header[i], column) pairs; n >= 3 here.
SecondHeader(columns, one_name, two_name) ==
    LET n == Len(columns)
        third == (n - 2) \div 3
    IN [i \in 1..n |->
          << (IF i - 1 = third * 2 + 2 THEN Difference
              ELSE IF i - 1 = third + 2 THEN two_name
              ELSE IF i - 1 = 2 THEN one_name
              ELSE <<>>),
             columns[i] >>]

ResetAccumulatorMutant(frame) == frame

\* Lines 162-163: sample.crosstabs = pd.DataFrame().
ResetAccumulator(frame) == EmptyFrame

(***************************************************************************)
(* Actions of analysis_tables().                                           *)
(***************************************************************************)
\* Lines 73-95: the accumulators are reset, Group and Time are popped from
\* the shared variable_measure and the variable lists are read from it.
TablesBegin ==
    /\ pc = "tables"
    /\ crosstabs' = EmptyFrame
    /\ summaries' = <<>>
    /\ written' = <<>>
    /\ variable_measure' = Pop(Pop(variable_measure, GroupCol), TimeCol)
    /\ pops' = pops + 1
    /\ removals' = removals + (IF variable_measure' # variable_measure THEN 1 ELSE 0)
    /\ nominal_variables' = KeysWithMeasure(variable_measure', "nominal")
    /\ ordinal_variables' =
          IF type = "Nominal" THEN << <<"1">> >>
          ELSE Reverse(KeysWithMeasure(variable_measure', "ordinal"))
    /\ ni' = 1
    /\ oi' = 1
    /\ pc' = "sweep"
    /\ UNCHANGED <<values, tables, weights, sample_comparisons, ci, sample, type>>
    /\ UNCHANGED unitVars

\* Lines 110-120: one pass of the inner loop.
CombineStep ==
    /\ pc = "sweep"
    /\ ni <= Len(nominal_variables)
    /\ oi <= Len(ordinal_variables)
    /\ LET crosstab ==
              IF type = "Nominal"
              THEN NominalCrosstab(sample, nominal_variables[ni])
              ELSE SetIndexLabelValues(
                       OrdinalCrosstab(nominal_variables[ni], ordinal_variables[oi]))
           summary ==
              [by |-> nominal_variables[ni],
               variable |-> IF type = "Nominal" THEN nominal_variables[ni]
                            ELSE ordinal_variables[oi]]
       IN /\ crosstabs' = CombineCrosstabs(crosstab, crosstabs)
          /\ summaries' = Append(summaries, summary)
    /\ oi' = oi + 1
    /\ UNCHANGED <<enumVars, type, nominal_variables, ordinal_variables, ni,
                   written, pops, removals>>
    /\ UNCHANGED unitVars

\* Lines 122-163: the inner loop of an ordinal sweep is over; the second
\* header is put on (an IndexError when the table has fewer than 3 columns),
\* the table and the summaries are written and both accumulators reset.
FlushOrdinal ==
    /\ pc = "sweep"
    /\ type = "Ordinal"
    /\ ni <= Len(nominal_variables)
    /\ oi > Len(ordinal_variables)
    /\ IF Len(crosstabs.columns) < 3
       THEN /\ pc' = "raised"
            /\ UNCHANGED <<crosstabs, summaries, written, ni, oi>>
       ELSE /\ written' = Append(written,
                [type |-> type, variable |-> nominal_variables[ni],
                 crosstabs |-> [columns |-> SecondHeader(crosstabs.columns,
                                               sample.one.name, sample.two.name),
                                rows |-> crosstabs.rows],
                 summaries |-> summaries])
            /\ crosstabs' = ResetAccumulator(crosstabs)
            /\ summaries' = <<>>
            /\ ni' = ni + 1
            /\ oi' = 1
            /\ pc' = pc
    /\ UNCHANGED <<values, variable_measure, tables, weights, sample_comparisons,
                   ci, sample, type, nominal_variables, ordinal_variables,
                   pops, removals>>
    /\ UNCHANGED unitVars

\* The inner loop of a nominal sweep is over: the outer loop goes on.
NextNominal ==
    /\ pc = "sweep"
    /\ type = "Nominal"
    /\ ni <= Len(nominal_variables)
    /\ oi > Len(ordinal_variables)
    /\ ni' = ni + 1
    /\ oi' = 1
    /\ UNCHANGED <<enumVars, type, nominal_variables, ordinal_variables,
                   crosstabs, summaries, written, pops, removals>>
    /\ UNCHANGED unitVars

\* Lines 165-167 and line 67: the nominal sweep is over; the table is
\* written under the last nominal variable's name (a NameError when there
\* was none), and analysis() calls analysis_tables(sample, "Ordinal").
ReturnNominal ==
    /\ pc = "sweep"
    /\ type = "Nominal"
    /\ ni > Len(nominal_variables)
    /\ IF nominal_variables = <<>>
       THEN /\ pc' = "raised"
            /\ UNCHANGED <<written, type>>
       ELSE /\ written' = Append(written,
                [type |-> type,
                 variable |-> nominal_variables[Len(nominal_variables)],
                 crosstabs |-> crosstabs, summaries |-> summaries])
            /\ type' = "Ordinal"
            /\ pc' = "tables"
    /\ UNCHANGED <<values, variable_measure, tables, weights, sample_comparisons,
                   ci, sample, nominal_variables, ordinal_variables, ni, oi,
                   crosstabs, summaries, pops, removals>>
    /\ UNCHANGED unitVars

\* The ordinal sweep is over: the for loop of analysis() goes on.
ReturnOrdinal ==
    /\ pc = "sweep"
    /\ type = "Ordinal"
    /\ ni > Len(nominal_variables)
    /\ ci' = ci + 1
    /\ pc' = "loop"
    /\ UNCHANGED <<values, variable_measure, tables, weights, sample_comparisons,
                   sample, tableVars>>
    /\ UNCHANGED unitVars

\* The (group, time) pairs of the product are all observed.
Balanced(rows) ==
    \A g \in Range(Column(rows, "Group")), t \in Range(Column(rows, "Time")) :
        FilterRows(rows, g, t) # <<>>

\* A whole run of analysis() on a balanced dataset of the groups Control
\* and Treatment, with or without the weight field.
InitRun ==
    /\ values \in {v \in SeqUpTo([Group : {Control, Treatment}, Time : Times], MaxRows) :
                      Balanced(v)}
    /\ \E sc \in {<<>>, <<weighted>>}, n \in 0..MaxNominal, o \in 0..MaxOrdinal :
          variable_measure = Codebook(sc, n, o)
    /\ tables = TRUE
    /\ InitRest

NextRun ==
    \/ Enumerate
    \/ ConstructSample
    \/ Complete
    \/ TablesBegin
    \/ CombineStep
    \/ FlushOrdinal
    \/ NextNominal
    \/ ReturnNominal
    \/ ReturnOrdinal

SpecRun == InitRun /\ [][NextRun]_vars

(***************************************************************************)
(* Claims about the sweeps (checked under SpecRun).                        *)
(***************************************************************************)
\* The rows an ordinal sweep accumulates for one nominal variable: for each
\* ordinal variable in codebook order, its means row, its category rows and
\* its DK/NA row.
RowsPerOrdinal(ordinal_variable) == Len(ValueLabels(ordinal_variable)) + 2

BlockVariables(ordinals) ==
    Flatten([j \in 1..Len(ordinals) |->
                [r \in 1..RowsPerOrdinal(ordinals[j]) |-> ordinals[j]]])

AllBy(rows, nominal_variable) ==
    \A i \in 1..Len(rows) : rows[i].by = nominal_variable

\* C5: in an ordinal sweep the k-th flush comes when the k-th nominal
\* variable's inner loop is over and before the next one starts (as many
\* flushes as finished nominal variables); the flushed table holds one block
\* of rows and the flushed summaries one row per ordinal variable, all
\* computed for that nominal variable; and after the flush (at the start of
\* the next inner loop) both accumulators are empty.
C5_OneFlushPerNominalVariable ==
    (type = "Ordinal" /\ pc = "sweep") =>
        /\ Len(written) = ni - 1
        /\ \A f \in 1..Len(written) :
              /\ written[f].variable = nominal_variables[f]
              /\ AllBy(written[f].crosstabs.rows, nominal_variables[f])
              /\ AllBy(written[f].summaries, nominal_variables[f])
              /\ Column(written[f].crosstabs.rows, "variable")
                    = BlockVariables(Reverse(ordinal_variables))
              /\ Column(written[f].summaries, "variable") = ordinal_variables
        /\ oi = 1 => (crosstabs = EmptyFrame /\ summaries = <<>>)
        /\ ni <= Len(nominal_variables) =>
              /\ AllBy(crosstabs.rows, nominal_variables[ni])
              /\ AllBy(summaries, nominal_variables[ni])
              /\ Len(summaries) = oi - 1

\* C5 witness: two nominal variables were flushed, each over two ordinal
\* variables, and the sweep is over.
C5_Witness ==
    /\ type = "Ordinal"
    /\ pc = "sweep"
    /\ Len(ordinal_variables) >= 2
    /\ Len(written) >= 2
    /\ ni > Len(nominal_variables)

HasKey(vm, key) == \E i \in 1..Len(vm) : vm[i][1] = key

\* C6 (as claimed): the removal of the Group and Time keys is executed
\* exactly once per run, not once per comparison or per sweep.
C6_PopExecutedOnce == pops <= 1

\* C6 (amended): the removal step is executed at the start of every
\* analysis_tables call, twice per comparison; only the first execution of
\* a run changes variable_measure, and every sweep reads the mapping
\* without Group and Time.
C6_RemovedOnceExecutedPerCall ==
    /\ removals <= 1
    /\ pops >= 1 <=> removals = 1
    /\ pops = 0 => HasKey(variable_measure, GroupCol) /\ HasKey(variable_measure, TimeCol)
    /\ pc = "sweep" =>
          /\ pops = 2 * (ci - 1) + (IF type = "Nominal" THEN 1 ELSE 2)
          /\ ~HasKey(variable_measure, GroupCol)
          /\ ~HasKey(variable_measure, TimeCol)
          /\ GroupCol \notin Range(nominal_variables)
          /\ TimeCol \notin Range(nominal_variables)

\* C6 witness: the second comparison's nominal sweep is running.
C6_Witness == pc = "sweep" /\ ci = 2 /\ pops = 3 /\ removals = 1

(***************************************************************************)
(* test_t() and full_entries().  A side's filtered rows are a frame        *)
(* indexed by respondent identifier: a function from identifiers to        *)
(* [present, ordinal, weight], the ordinal variable's raw code and the     *)
(* value of the side's weight column; NaN is a missing value.  A vector is *)
(* a sequence of [IDs, value] in index order.  A reported cell is          *)
(* [isstr, na, num, hasP, P]: pd.NA (isstr false), or a string made of a   *)
(* number in thousandths (or "<NA>", when na) and, when hasP, the text     *)
(* " (P = <P in thousandths>)".                                            *)
(***************************************************************************)
Respondents == 1..MaxRespondents

AbsentRow == [present |-> FALSE, ordinal |-> NaN, weight |-> NaN]

PresentRow(o, w) == [present |-> TRUE, ordinal |-> o, weight |-> w]

\* The rows a side may hold: the "Unweighted" column is the constant 1
\* (subsample.__init__, .assign(Unweighted=1)); a weight field may be
\* missing or zero.
SideRows(weight) ==
    {AbsentRow} \cup
    (IF weight = Unweighted
     THEN {PresentRow(NaN, 1), PresentRow(1, 1), PresentRow(2, 1)}
     ELSE {PresentRow(NaN, 1), PresentRow(1, 1), PresentRow(2, 1),
           PresentRow(1, 0), PresentRow(1, NaN)})

\* The identifiers in S, in index order.
IdsIn(S) == SelectSeqBy([i \in Respondents |-> i], S)

Vector(ids, filtered, field) ==
    [k \in 1..Len(ids) |-> [IDs |-> ids[k], value |-> filtered[ids[k]][field]]]

CompleteSide(filtered, i) ==
    /\ filtered[i].present
    /\ filtered[i].ordinal # NaN
    /\ filtered[i].weight # NaN

\* The else branch of full_entries (lines 630-649): listwise deletion per side.
FullEntriesIndependent(smp) ==
    LET ids1 == IdsIn({i \in Respondents : CompleteSide(smp.one.filtered, i)})
        ids2 == IdsIn({i \in Respondents : CompleteSide(smp.two.filtered, i)})
    IN [one_ordinal |-> Vector(ids1, smp.one.filtered, "ordinal"),
        one_weights |-> Vector(ids1, smp.one.filtered, "weight"),
        two_ordinal |-> Vector(ids2, smp.two.filtered, "ordinal"),
        two_weights |-> Vector(ids2, smp.two.filtered, "weight")]

\* The paired branch (lines 607-628): pd.concat(axis=1) joins the four
\* columns on the identifier (a respondent of one side only gets NaN in the
\* other side's columns) and dropna() keeps the rows without NaN.
FullEntriesPaired(smp) ==
    LET ids == IdsIn({i \in Respondents :
                         /\ CompleteSide(smp.one.filtered, i)
                         /\ CompleteSide(smp.two.filtered, i)})
    IN [one_ordinal |-> Vector(ids, smp.one.filtered, "ordinal"),
        one_weights |-> Vector(ids, smp.one.filtered, "weight"),
        two_ordinal |-> Vector(ids, smp.two.filtered, "ordinal"),
        two_weights |-> Vector(ids, smp.two.filtered, "weight")]

FullEntriesMutant(smp) == FullEntriesIndependent(smp)

FullEntries(smp) ==
    IF smp.paired THEN FullEntriesPaired(smp) ELSE FullEntriesIndependent(smp)

\* Lines 623-628: groupby(level=0, axis=1).nth(1) holds the second column
\* of each name; when the two sides' weight columns have different names
\* there is no second one, and [sample.two.weight] raises KeyError.
FullEntriesRaises(smp) == smp.paired /\ smp.one.weight # smp.two.weight

RECURSIVE Sum(_)
Sum(vector) ==
    IF vector = <<>> THEN 0 ELSE Head(vector).value + Sum(Tail(vector))

\* The sum of weights[k] * data[k].
RECURSIVE Dot(_, _)
Dot(wts, data) ==
    IF wts = <<>> THEN 0
    ELSE Head(wts).value * Head(data).value + Dot(Tail(wts), Tail(data))

\* Whether the weighted variance of data is positive: two entries of
\* positive weight differ.
Varies(wts, data) ==
    \E k, l \in 1..Len(data) :
        /\ wts[k].value > 0
        /\ wts[l].value > 0
        /\ data[k].value # data[l].value

Differences(e) ==
    [k \in 1..Len(e.two_ordinal) |->
        [IDs |-> e.two_ordinal[k].IDs,
         value |-> e.two_ordinal[k].value - e.one_ordinal[k].value]]

\* Whether the t-test of lines 569-582 returns a number rather than nan.
\* Paired: DescrStatsW(two - one, weights of side one).ttest_mean(0) has
\* sum(weights) - 1 degrees of freedom and the statistic mean / std_mean; it
\* is nan without weight, with no degree of freedom, and for 0 / 0.
\* Independent: ttest_ind(usevar="unequal") divides each side's variance by
\* its sum(weights) - 1 and is nan when both variances are zero.
PDefined(smp, e) ==
    IF smp.paired
    THEN /\ Sum(e.one_weights) > 1
         /\ \/ Varies(e.one_weights, Differences(e))
            \/ Dot(e.one_weights, Differences(e)) # 0
    ELSE /\ Sum(e.one_weights) > 1
         /\ Sum(e.two_weights) > 1
         /\ \/ Varies(e.one_weights, e.one_ordinal)
            \/ Varies(e.two_weights, e.two_ordinal)

\* The p-values a defined test may return, in ten-thousandths.
PValues == {4, 496, 10000}

PossibleP(smp, e) == IF PDefined(smp, e) THEN PValues ELSE {NaN}

\* "{:.3f}".format(num / den), in thousandths (den > 0).
Format3(num, den) == (2000 * num + den) \div (2 * den)

StrCell(num) == [isstr |-> TRUE, na |-> FALSE, num |-> num, hasP |-> FALSE, P |-> 0]

\* f"{mean_difference} (P = {P:.3f})": str(pd.NA) is "<NA>".
WithP(cell, p) ==
    [isstr |-> TRUE, na |-> cell.na, num |-> cell.num, hasP |-> TRUE,
     P |-> Format3(p, 10000)]

\* Lines 584-603.
Report(e, p) ==
    LET n1 == Dot(e.one_weights, e.one_ordinal)
        d1 == Sum(e.one_weights)
        n2 == Dot(e.two_weights, e.two_ordinal)
        d2 == Sum(e.two_weights)
        nonzero == d1 # 0 /\ d2 # 0
        mean1 == IF nonzero THEN StrCell(Format3(n1, d1)) ELSE NoCell
        mean2 == IF nonzero THEN StrCell(Format3(n2, d2)) ELSE NoCell
        difference == IF nonzero THEN StrCell(Format3(n2 * d1 - n1 * d2, d1 * d2))
                      ELSE NoCell
    IN [mean1 |-> mean1, mean2 |-> mean2,
        mean_difference |-> IF p # NaN THEN WithP(difference, p) ELSE difference]

\* The (group, weight) of the two sides of the comparisons test_t is
\* called for here: a group at two times, unweighted and weighted; two
\* groups; two groups with different weight schemes; and the two groups
\* whose concatenations with their weight schemes coincide.
TestSides ==
    { <<Control, Unweighted, Control, Unweighted>>,
      <<Control, weighted, Control, weighted>>,
      <<Control, Unweighted, Treatment, Unweighted>>,
      <<Control, Unweighted, Treatment, weighted>>,
      <<Control, Unweighted, ControlUn, weighted>> }

TestSample(c, f1, f2) ==
    [paired |-> Paired([group |-> c[1], weight |-> c[2]],
                       [group |-> c[3], weight |-> c[4]]),
     one |-> [group |-> c[1], weight |-> c[2], filtered |-> f1],
     two |-> [group |-> c[3], weight |-> c[4], filtered |-> f2]]

InitTest ==
    /\ values = <<>>
    /\ variable_measure = <<>>
    /\ tables = FALSE
    /\ InitAnalysis
    /\ \E c \in TestSides :
          \E f1 \in [Respondents -> SideRows(c[2])],
             f2 \in [Respondents -> SideRows(c[4])] :
              tsample = TestSample(c, f1, f2)
    /\ entries = <<>>
    /\ P = NaN
    /\ report = <<>>
    /\ tpc = "call"
    /\ InitSummaryIdle
    /\ InitPluralityIdle
    /\ InitChiIdle
    /\ InitCombineIdle
    /\ InitComparisonIdle

\* test_t (lines 555-603) on the filtered rows.
TestT ==
    /\ tpc = "call"
    /\ IF FullEntriesRaises(tsample)
       THEN /\ tpc' = "raised"
            /\ UNCHANGED <<entries, P, report>>
       ELSE /\ entries' = FullEntries(tsample)
            /\ P' \in PossibleP(tsample, entries')
            /\ report' = Report(entries', P')
            /\ tpc' = "returned"
    /\ UNCHANGED <<enumVars, tableVars, tsample, summaryVars, pluralityVars, chiVars,
                   combineVars, comparisonVars>>

NextTest == TestT

SpecTest == InitTest /\ [][NextTest]_vars

(***************************************************************************)
(* Claims about test_t and full_entries (checked under SpecTest).          *)
(***************************************************************************)
ZeroWeight == Sum(entries.one_weights) = 0 \/ Sum(entries.two_weights) = 0

IsNumberString(cell) == cell.isstr /\ ~cell.na /\ ~cell.hasP

\* C8 (as claimed): when either side's total weight after listwise deletion
\* is zero, mean1, mean2 and the difference cell are the no-data marker;
\* otherwise mean1 and mean2 are 3-decimal strings and the difference cell
\* is a 3-decimal string, followed by " (P = <p>)" exactly when the
\* p-value is defined.
C8_ReportShape ==
    tpc = "returned" =>
        IF ZeroWeight
        THEN /\ report.mean1 = NoCell
             /\ report.mean2 = NoCell
             /\ report.mean_difference = NoCell
        ELSE /\ IsNumberString(report.mean1)
             /\ IsNumberString(report.mean2)
             /\ report.mean_difference.isstr
             /\ ~report.mean_difference.na
             /\ report.mean_difference.hasP <=> P # NaN

IDsOf(vector) == [k \in 1..Len(vector) |-> vector[k].IDs]

\* C10: in paired mode the four vectors full_entries leaves cover the same
\* identifiers in the same order: exactly the respondents present on both
\* sides whose ordinal value and weight are non-missing on both sides, each
\* with its own values.
C10_PairedAlignment ==
    (tpc = "returned" /\ tsample.paired) =>
        /\ IDsOf(entries.one_weights) = IDsOf(entries.one_ordinal)
        /\ IDsOf(entries.two_ordinal) = IDsOf(entries.one_ordinal)
        /\ IDsOf(entries.two_weights) = IDsOf(entries.one_ordinal)
        /\ Range(IDsOf(entries.one_ordinal)) =
              {i \in Respondents :
                  /\ tsample.one.filtered[i].present
                  /\ tsample.two.filtered[i].present
                  /\ tsample.one.filtered[i].ordinal # NaN
                  /\ tsample.one.filtered[i].weight # NaN
                  /\ tsample.two.filtered[i].ordinal # NaN
                  /\ tsample.two.filtered[i].weight # NaN}
        /\ \A k \in 1..Len(entries.one_ordinal) :
              LET i == entries.one_ordinal[k].IDs
              IN /\ entries.one_ordinal[k].value = tsample.one.filtered[i].ordinal
                 /\ entries.one_weights[k].value = tsample.one.filtered[i].weight
                 /\ entries.two_ordinal[k].value = tsample.two.filtered[i].ordinal
                 /\ entries.two_weights[k].value = tsample.two.filtered[i].weight
                 /\ \A l \in 1..(k - 1) : entries.one_ordinal[l].IDs < i

\* C10 witness: a paired call returned with one respondent kept and another,
\* complete on side one and missing a value on side two, removed from both.
C10_Witness ==
    /\ tpc = "returned"
    /\ tsample.paired
    /\ Len(entries.one_ordinal) = 1
    /\ \E i \in Respondents :
          /\ CompleteSide(tsample.one.filtered, i)
          /\ tsample.two.filtered[i].present
          /\ ~CompleteSide(tsample.two.filtered, i)

(***************************************************************************)
(* plurality().  A percentage cell "p%" with one decimal is the integer    *)
(* number of tenths of a percent; a column is a sequence of                *)
(* [label, tenths].                                                        *)
(***************************************************************************)
\* Series.idxmax(): the label of the first largest entry.
IdxMax(column) ==
    LET k == CHOOSE k \in 1..Len(column) :
                 /\ \A l \in 1..Len(column) : column[l].tenths <= column[k].tenths
                 /\ \A l \in 1..(k - 1) : column[l].tenths < column[k].tenths
    IN column[k].label

ValueAt(column, label) ==
    column[CHOOSE k \in 1..Len(column) : column[k].label = label].tenths

KindMutant(tenths) ==
    IF tenths <= 500 THEN "plurality"
    ELSE IF 3 * tenths > 2000 THEN "supermajority"
    ELSE "majority"

\* Lines 732-737: numeric / 100 < 0.5, numeric / 100 > 2 / 3, else.
Kind(tenths) ==
    IF tenths < 500 THEN "plurality"
    ELSE IF 3 * tenths > 2000 THEN "supermajority"
    ELSE "majority"

\* plurality (lines 728-739).
Plurality(column) ==
    LET value == IdxMax(column)
        numeric == ValueAt(column, value)
    IN [value |-> value, numeric |-> numeric, kind |-> Kind(numeric)]

\* The one-decimal percentages 0.0 .. 100.0, in tenths.
Shares == 0..1000

\* A column of two categories whose first one is dominant with share p.
InitPlurality ==
    /\ values = <<>>
    /\ variable_measure = <<>>
    /\ tables = FALSE
    /\ InitAnalysis
    /\ InitTestIdle
    /\ InitSummaryIdle
    /\ InitChiIdle
    /\ InitCombineIdle
    /\ InitComparisonIdle
    /\ \E p \in Shares :
          plurality_percentages = << [label |-> <<"l", "1">>, tenths |-> p],
                           [label |-> <<"l", "2">>,
                            tenths |-> IF p <= 500 THEN p ELSE 1000 - p] >>
    /\ dominant = <<>>
    /\ ppc = "call"

CallPlurality ==
    /\ ppc = "call"
    /\ dominant' = Plurality(plurality_percentages)
    /\ ppc' = "returned"
    /\ UNCHANGED <<enumVars, tableVars, testVars, summaryVars, chiVars, combineVars,
                   comparisonVars, plurality_percentages>>

NextPlurality == CallPlurality

SpecPlurality == InitPlurality /\ [][NextPlurality]_vars

\* C7 (as claimed): a dominant share p is "plurality" when p < 50,
\* "majority" when 50 <= p <= 66.7 and "supermajority" when p > 66.7.
C7_KindByShare ==
    ppc = "returned" =>
        dominant.kind = (IF dominant.numeric < 500 THEN "plurality"
                         ELSE IF dominant.numeric <= 667 THEN "majority"
                         ELSE "supermajority")

\* C7 (amended): a dominant share p with one decimal is "plurality" when
\* p < 50, "majority" when 50 <= p <= 66.6 and "supermajority" when
\* p >= 66.7 (the threshold is 2/3): 50.0 is "majority", 66.7 is
\* "supermajority".
C7_KindByTwoThirds ==
    ppc = "returned" =>
        /\ dominant.numeric = plurality_percentages[1].tenths
        /\ dominant.kind = (IF dominant.numeric < 500 THEN "plurality"
                            ELSE IF dominant.numeric <= 666 THEN "majority"
                            ELSE "supermajority")

\* C7 witness: the share 66.7 was classified.
C7_Witness ==
    ppc = "returned" /\ dominant.numeric = 667 /\ dominant.kind = "supermajority"

(***************************************************************************)
(* ordinal_summary() and mean_comparison().  The table is given by its     *)
(* columns and its first row (the means row add_crosstab_tests put on      *)
(* top); a cell's `na` says that the text before " (" is not a number.     *)
(***************************************************************************)
VariableCell == [isstr |-> TRUE, na |-> TRUE, num |-> 0, hasP |-> FALSE, P |-> 0]

NoComparison == [significant |-> FALSE, change |-> "", P |-> 0]

\* mean_comparison (lines 702-725): float() of the text before " (" raises
\* ValueError when that text is no number.
MeanComparisonRaises(cell) == cell.na

MeanComparison(cell) ==
    LET p == IF cell.hasP THEN cell.P ELSE 1000
    IN [significant |-> p < 50,
        change |-> IF cell.num < 0 THEN "decreased"
                   ELSE IF cell.num > 0 THEN "increased"
                   ELSE "did not change",
        P |-> p]

Sentence(value, difference) ==
    [text |-> "sentence", column |-> value, difference |-> difference]

Insufficient ==
    [text |-> "Insufficient data to generate prose summary.",
     column |-> Header(<<>>, 0), difference |-> NoComparison]

\* The columns the for loop of line 281 visits, after set_index (line 273).
SummaryColumns(table) ==
    LET columns == SetIndexLabelValues(table).columns
        length == (Len(columns) - 1) \div 3
    IN SubSeq(columns, 2, 1 + length)

\* list(columns).index(value) + 2 * length, as a position of the means row.
IndexDif(table, value) ==
    LET columns == SetIndexLabelValues(table).columns
        length == (Len(columns) - 1) \div 3
        index_one == (CHOOSE i \in 1..Len(columns) :
                         /\ columns[i] = value
                         /\ \A j \in 1..(i - 1) : columns[j] # value)
    IN index_one + 2 * length

RECURSIVE Statement(_, _)
\* The sentences of the columns, in order (lines 281-311).
Statement(table, columns) ==
    IF columns = <<>> THEN <<>>
    ELSE LET cell == table.means[IndexDif(table, Head(columns))]
         IN (IF cell.isstr
             THEN <<Sentence(Head(columns), MeanComparison(cell))>>
             ELSE <<>>)
            \o Statement(table, Tail(columns))

\* Whether some visited column makes mean_comparison raise.
OrdinalSummaryRaises(table) ==
    \E k \in 1..Len(SummaryColumns(table)) :
        LET cell == table.means[IndexDif(table, SummaryColumns(table)[k])]
        IN cell.isstr /\ MeanComparisonRaises(cell)

\* ordinal_summary (lines 271-314).
OrdinalSummary(table) ==
    LET statement == Statement(table, SummaryColumns(table))
    IN IF Len(statement) = 0 THEN <<Insufficient>> ELSE statement

\* The means a column may hold after test_t: the no-data marker; in a
\* paired table also "<NA> (P = p)"; or the two means and their difference
\* with or without a p-value.
ColumnMeans(paired) ==
    { [mean1 |-> NoCell, mean2 |-> NoCell, mean_difference |-> NoCell] }
    \cup (IF paired
          THEN { [mean1 |-> NoCell, mean2 |-> NoCell,
                  mean_difference |-> WithP(NoCell, p)] : p \in PValues }
          ELSE {})
    \cup { [mean1 |-> StrCell(1500), mean2 |-> StrCell(1500 + d),
            mean_difference |-> StrCell(d)] : d \in {-500, 0, 500} }
    \cup { [mean1 |-> StrCell(1500), mean2 |-> StrCell(1500 + d),
            mean_difference |-> WithP(StrCell(d), p)] :
               d \in {-500, 0, 500}, p \in PValues }

BreakdownLabels(k) ==
    [i \in 1..k |-> IF i = 1 THEN AllLabel ELSE <<"c", Digits[i - 1]>>]

\* The table ordinal_crosstab returns for k breakdown columns with the
\* given means, as ordinal_summary reads it after set_index.
SummaryTable(paired, columnMeans) ==
    LET k == Len(columnMeans)
        filters == BreakdownLabels(k)
    IN [paired |-> paired,
        columns |-> <<VariableHeader, LabelValuesHeader>>
                    \o [i \in 1..k |-> Header(filters[i], 1)]
                    \o [i \in 1..k |-> Header(filters[i], 2)]
                    \o [i \in 1..k |-> Header(filters[i], 0)],
        rows |-> <<>>,
        means |-> <<VariableCell>>
                  \o [i \in 1..k |-> columnMeans[i].mean1]
                  \o [i \in 1..k |-> columnMeans[i].mean2]
                  \o [i \in 1..k |-> columnMeans[i].mean_difference]]

InitSummary ==
    /\ values = <<>>
    /\ variable_measure = <<>>
    /\ tables = FALSE
    /\ InitAnalysis
    /\ InitTestIdle
    /\ InitPluralityIdle
    /\ InitChiIdle
    /\ InitCombineIdle
    /\ InitComparisonIdle
    /\ \E paired \in BOOLEAN, k \in 1..MaxBreakdown :
          \E columnMeans \in [1..k -> ColumnMeans(paired)] :
              summary_crosstab = SummaryTable(paired, columnMeans)
    /\ summary_statement = <<>>
    /\ spc = "call"

CallOrdinalSummary ==
    /\ spc = "call"
    /\ IF OrdinalSummaryRaises(summary_crosstab)
       THEN /\ spc' = "raised"
            /\ UNCHANGED summary_statement
       ELSE /\ summary_statement' = OrdinalSummary(summary_crosstab)
            /\ spc' = "returned"
    /\ UNCHANGED <<enumVars, tableVars, testVars, pluralityVars, chiVars, combineVars,
                   comparisonVars, summary_crosstab>>

NextSummary == CallOrdinalSummary

SpecSummary == InitSummary /\ [][NextSummary]_vars

\* The breakdown columns (side-one headers) whose difference cell in the
\* means row is a string, in table order.
DefinedColumns ==
    LET k == (Len(summary_crosstab.columns) - 2) \div 3
    IN SelectSeqBy(SubSeq(summary_crosstab.columns, 3, 2 + k),
                   {summary_crosstab.columns[2 + i] : i \in {j \in 1..k :
                        summary_crosstab.means[1 + 2 * k + j].isstr}})

\* C9 (as claimed): ordinal_summary returns the literal "Insufficient data
\* to generate prose summary." exactly when no breakdown column has a
\* string difference cell; otherwise it returns a narrative with one
\* sentence for each of exactly those columns (a sentinel column adds no
\* sentence and does not raise).
C9_SummaryFromDefinedColumns ==
    spc # "call" =>
        /\ spc = "returned"
        /\ summary_statement = <<Insufficient>> <=> DefinedColumns = <<>>
        /\ DefinedColumns # <<>> =>
              [k \in 1..Len(summary_statement) |-> summary_statement[k].column] = DefinedColumns

\* The position of the first column of a block of a written table: the
\* side-one block (1), the side-two block (2), and the difference block (3),
\* which follows the last column of side two.
FirstOfBlock(columns, block) ==
    LET ones == {i \in 1..Len(columns) : columns[i][2].side = 1}
        twos == {i \in 1..Len(columns) : columns[i][2].side = 2}
        Min(S) == CHOOSE i \in S : \A j \in S : i <= j
        Max(S) == CHOOSE i \in S : \A j \in S : j <= i
    IN IF block = 1 THEN Min(ones)
       ELSE IF block = 2 THEN Min(twos)
       ELSE Max(twos) + 1

\* C12 (as claimed): in every flushed ordinal table the second header row
\* has side one's name over the first column of the side-one block, side
\* two's name over the first column of the side-two block and "Difference"
\* over the first column of the difference block.
C12_SecondHeaderOverBlocks ==
    \A d \in 1..Len(written) :
        written[d].type = "Ordinal" =>
            LET columns == written[d].crosstabs.columns
            IN /\ columns[FirstOfBlock(columns, 1)][1] = sample.one.name
               /\ columns[FirstOfBlock(columns, 2)][1] = sample.two.name
               /\ columns[FirstOfBlock(columns, 3)][1] = Difference

(***************************************************************************)
(* nominal_crosstab() and test_chi().  A side's labels are rows of         *)
(* [category, Unweighted, weighted]; a table of weighted counts is the     *)
(* sequence of the counts of the variable's categories, in their order.    *)
(***************************************************************************)
\* The values a weight field takes in the rows of a side.
WeightValues == {0, 1, 100}

Categories == ValueLabels(NominalName(1))

LabelRows ==
    [category : Range(Categories), Unweighted : {1}, weighted : WeightValues]

\* Every declared category is observed on the side.
Observes(rows) == \A c \in Range(Categories) : \E k \in 1..Len(rows) : rows[k].category = c

WeightOf(row, weight) == IF weight = Unweighted THEN row.Unweighted ELSE row.weighted

RECURSIVE SumWeights(_, _, _)
\* aggfunc="sum" of the weight column over the rows of one category.
SumWeights(rows, weight, category) ==
    IF rows = <<>> THEN 0
    ELSE (IF Head(rows).category = category THEN WeightOf(Head(rows), weight) ELSE 0)
         + SumWeights(Tail(rows), weight, category)

\* pd.crosstab(index=labels[variable], columns="Total", values=labels[weight],
\* aggfunc="sum").
Crosstab(rows, weight) ==
    [i \in 1..Len(Categories) |-> SumWeights(rows, weight, Categories[i])]

RECURSIVE Total(_)
Total(counts) == IF counts = <<>> THEN 0 ELSE Head(counts) + Total(Tail(counts))

\* create_crosstab(type="Nominal") (lines 441-473): "(share%) count" per
\* category, the share in tenths of a percent.
CreateCrosstabNominal(rows, weight) ==
    LET absolute_frequencies == Crosstab(rows, weight)
        total == Total(absolute_frequencies)
    IN [i \in 1..Len(absolute_frequencies) |->
           [percent |-> IF total = 0 THEN NaN
                        ELSE (2000 * absolute_frequencies[i] + total) \div (2 * total),
            count |-> absolute_frequencies[i]]]

\* Lines 202-207: the observed argument of test_chi.
ObservedArgument(smp) == Crosstab(smp.one.labels, smp.one.weight)

\* Lines 208-213: the expected argument of test_chi, summed over
\* sample.two.labels[sample.one.weight].
ExpectedArgument(smp) == Crosstab(smp.two.labels, smp.one.weight)

\* Lines 538-542: the two columns side by side, less the rows that are
\* zero in both.
ObservedExpected(obs, exp) ==
    LET stacked == [i \in 1..Len(obs) |-> <<obs[i], exp[i]>>]
    IN SelectSeqBy(stacked, Range(stacked) \ {<<0, 0>>})

\* chi2_contingency (line 544) raises ValueError on an empty table and on a
\* table with a zero column or row total.
ChiRaises(obs, exp) ==
    LET matrix == ObservedExpected(obs, exp)
    IN \/ matrix = <<>>
       \/ Total([i \in 1..Len(matrix) |-> matrix[i][1]]) = 0
       \/ Total([i \in 1..Len(matrix) |-> matrix[i][2]]) = 0

\* The p-values chi2_contingency may return, in thousandths: 1.0 for a
\* table of a single row (no degree of freedom).
PossibleChiP(obs, exp) ==
    IF Len(ObservedExpected(obs, exp)) = 1 THEN {1000}
    ELSE {Format3(p, 10000) : p \in PValues}

\* Line 547: np.any(expected < 5), on the expected argument.
Warns(exp) == \E i \in 1..Len(exp) : exp[i] < 5

\* test_chi (lines 537-552) with the p-value p.
TestChi(obs, exp, p) == [P |-> p, warning |-> Warns(exp)]

ChiSample(w1, w2, rows1, rows2) ==
    [one |-> [weight |-> w1, labels |-> rows1],
     two |-> [weight |-> w2, labels |-> rows2]]

SideLabels == {r \in SeqUpTo(LabelRows, MaxSideRows) : Observes(r)}

InitChi ==
    /\ values = <<>>
    /\ variable_measure = <<>>
    /\ tables = FALSE
    /\ InitAnalysis
    /\ InitTestIdle
    /\ InitSummaryIdle
    /\ InitPluralityIdle
    /\ InitCombineIdle
    /\ InitComparisonIdle
    /\ \E w1, w2 \in {Unweighted, weighted} :
          \E rows1, rows2 \in SideLabels :
              chi_sample = ChiSample(w1, w2, rows1, rows2)
    /\ chi_crosstab = <<>>
    /\ observed = <<>>
    /\ expected = <<>>
    /\ chi_result = <<>>
    /\ cpc = "call"

\* nominal_crosstab (lines 170-216).
CallNominalCrosstab ==
    /\ cpc = "call"
    /\ chi_crosstab' =
          [one |-> CreateCrosstabNominal(chi_sample.one.labels, chi_sample.one.weight),
           two |-> CreateCrosstabNominal(chi_sample.two.labels, chi_sample.two.weight)]
    /\ observed' = ObservedArgument(chi_sample)
    /\ expected' = ExpectedArgument(chi_sample)
    /\ IF ChiRaises(observed', expected')
       THEN /\ cpc' = "raised"
            /\ UNCHANGED chi_result
       ELSE /\ \E p \in PossibleChiP(observed', expected') :
                  chi_result' = TestChi(observed', expected', p)
            /\ cpc' = "returned"
    /\ UNCHANGED <<enumVars, tableVars, testVars, summaryVars, pluralityVars,
                   combineVars, comparisonVars, chi_sample>>

NextChi == CallNominalCrosstab

SpecChi == InitChi /\ [][NextChi]_vars

\* The expected cell counts of the chi-square test: row total times column
\* total over the grand total; one of them is below 5.
LowExpectedCount ==
    LET matrix == ObservedExpected(observed, expected)
        row(i) == matrix[i][1] + matrix[i][2]
        column(j) == Total([i \in 1..Len(matrix) |-> matrix[i][j]])
        grand == column(1) + column(2)
    IN \E i \in 1..Len(matrix), j \in 1..2 : row(i) * column(j) < 5 * grand

\* C11 (as claimed): when the p-value is defined, test_chi appends the
\* low-expected-count warning if and only if an expected cell count of the
\* test (row total times column total over the grand total) is below 5.
C11_WarningIffLowExpectedCount ==
    cpc = "returned" => (chi_result.warning <=> LowExpectedCount)

\* C14 (as claimed): the weighted counts nominal_crosstab passes to test_chi
\* are those of each side under its own weight scheme, the counts its
\* column of the table displays.
C14_CountsUnderOwnWeight ==
    cpc # "call" =>
        /\ observed = [i \in 1..Len(observed) |-> chi_crosstab.one[i].count]
        /\ expected = [i \in 1..Len(expected) |-> chi_crosstab.two[i].count]

(***************************************************************************)
(* combine_crosstabs() on its own: any new table and any accumulated       *)
(* table of at most MaxColumns columns and MaxTableRows rows.              *)
(***************************************************************************)
ColumnNames == {Header(AllLabel, 1), Header(AllLabel, 2)}

TableRows ==
    [by : {NominalName(1)}, variable : {OrdinalName(1)},
     label : {MeansLabel, DKNA}]

Frames ==
    [columns : SeqUpTo(ColumnNames, MaxColumns), rows : SeqUpTo(TableRows, MaxTableRows)]

InitCombine ==
    /\ values = <<>>
    /\ variable_measure = <<>>
    /\ tables = FALSE
    /\ InitAnalysis
    /\ InitTestIdle
    /\ InitSummaryIdle
    /\ InitPluralityIdle
    /\ InitChiIdle
    /\ InitComparisonIdle
    /\ new_crosstab \in Frames
    /\ accumulated \in Frames
    /\ combined = <<>>
    /\ ccpc = "call"

CallCombineCrosstabs ==
    /\ ccpc = "call"
    /\ combined' = CombineCrosstabs(new_crosstab, accumulated)
    /\ ccpc' = "returned"
    /\ UNCHANGED <<enumVars, tableVars, testVars, summaryVars, pluralityVars,
                   chiVars, comparisonVars, new_crosstab, accumulated>>

NextCombine == CallCombineCrosstabs

SpecCombine == InitCombine /\ [][NextCombine]_vars

\* C13: combine_crosstabs(new, accumulated) returns, under new's column
\* names, the rows of new followed by the rows of accumulated when the two
\* tables have the same number of columns, and the rows of new alone when
\* the numbers of columns differ.
C13_CombineKeepsOrResets ==
    ccpc = "returned" =>
        /\ combined.columns = new_crosstab.columns
        /\ combined.rows =
              IF Len(new_crosstab.columns) = Len(accumulated.columns)
              THEN new_crosstab.rows \o accumulated.rows
              ELSE new_crosstab.rows

\* C13 witness: two tables of the same number of columns under different
\* names, each with rows, were combined.
C13_Witness ==
    /\ ccpc = "returned"
    /\ Len(new_crosstab.columns) = Len(accumulated.columns)
    /\ new_crosstab.columns # accumulated.columns
    /\ new_crosstab.rows # <<>>
    /\ accumulated.rows # <<>>
    /\ Len(combined.rows) = Len(new_crosstab.rows) + Len(accumulated.rows)

(***************************************************************************)
(* plurality_comparison() as ordinal_summary() calls it on a column that   *)
(* gets a sentence.  A side is given by the numbers of its respondents     *)
(* who chose each declared label of the ordinal variable (label i has the  *)
(* value i) and of those without an answer (DK/NA).                        *)
(***************************************************************************)
OrdinalLabels == ValueLabels(OrdinalName(1))

CountValues == {0, 1, 2, 198}

RECURSIVE WeightedTotal(_)
\* The sum of value times count over the declared labels.
WeightedTotal(counts) ==
    IF counts = <<>> THEN 0
    ELSE Len(counts) * counts[Len(counts)] + WeightedTotal(SubSeq(counts, 1, Len(counts) - 1))

\* Both weight sums of test_t are nonzero (lines 584-587), so the means and
\* the difference are strings and line 288 takes the column.
Answered(side) == Total(side.labelled) > 0

\* The mean of the side is a number of tenths, as the percentages are.
MeanInTenths(side) == (10 * WeightedTotal(side.labelled)) % Total(side.labelled) = 0

\* The column of a side in sample.crosstab: the means row that
\* add_crosstab_tests (line 519) puts on top, the percentages of the
\* declared labels (create_crosstab, normalize="columns", round(1)), and
\* the DK/NA row last; all in tenths.
CrosstabColumn(side) ==
    LET total == Total(side.labelled) + side.dkna
        share(count) == (2000 * count + total) \div (2 * total)
    IN << [label |-> MeansLabel,
           tenths |-> (10 * WeightedTotal(side.labelled)) \div Total(side.labelled)] >>
       \o [i \in 1..Len(OrdinalLabels) |->
              [label |-> OrdinalLabels[i], tenths |-> share(side.labelled[i])]]
       \o << [label |-> DKNA, tenths |-> share(side.dkna)] >>

\* Lines 290-291: .iloc[:-1, index].
AllButLast(column) == SubSeq(column, 1, Len(column) - 1)

\* plurality_comparison (lines 742-755): the parts of the three strings.
PluralityComparison(percentages1, percentages2) ==
    LET one == Plurality(percentages1)
        two == Plurality(percentages2)
        like == one.kind = two.kind
    IN [likeness |-> IF like THEN "like" ELSE "unlike",
        plurality1 |-> [kind |-> IF like THEN "" ELSE one.kind,
                        value |-> IF like THEN <<>> ELSE one.value,
                        numeric |-> one.numeric],
        plurality2 |-> [kind |-> two.kind, value |-> two.value,
                        numeric |-> two.numeric]]

Sides ==
    {side \in [labelled : [1..Len(OrdinalLabels) -> CountValues], dkna : CountValues] :
        Answered(side) /\ MeanInTenths(side)}

InitComparison ==
    /\ values = <<>>
    /\ variable_measure = <<>>
    /\ tables = FALSE
    /\ InitAnalysis
    /\ InitTestIdle
    /\ InitSummaryIdle
    /\ InitPluralityIdle
    /\ InitChiIdle
    /\ InitCombineIdle
    /\ answers \in [one : Sides, two : Sides]
    /\ column_one = <<>>
    /\ column_two = <<>>
    /\ comparison = <<>>
    /\ dpc = "call"

\* ordinal_summary, lines 288-292.
CallPluralityComparison ==
    /\ dpc = "call"
    /\ column_one' = AllButLast(CrosstabColumn(answers.one))
    /\ column_two' = AllButLast(CrosstabColumn(answers.two))
    /\ comparison' = PluralityComparison(column_one', column_two')
    /\ dpc' = "returned"
    /\ UNCHANGED <<enumVars, tableVars, testVars, summaryVars, pluralityVars,
                   chiVars, combineVars, answers>>

NextComparison == CallPluralityComparison

SpecComparison == InitComparison /\ [][NextComparison]_vars

\* The largest percentage among the declared labels of a side's column.
LargestShare(side) ==
    LET column == CrosstabColumn(side)
        shares == {column[1 + i].tenths : i \in 1..Len(OrdinalLabels)}
    IN CHOOSE m \in shares : \A n \in shares : n <= m

\* A reported dominant response is a declared label with the largest share.
DominantOf(side, reported) ==
    /\ reported.numeric = LargestShare(side)
    /\ reported.value # <<>> =>
          /\ reported.value \in Range(OrdinalLabels)
          /\ \E i \in 1..Len(OrdinalLabels) :
                /\ OrdinalLabels[i] = reported.value
                /\ CrosstabColumn(side)[1 + i].tenths = LargestShare(side)

\* C15 (as claimed): for every column that gets a sentence, the dominant
\* response that plurality_comparison reports for each side is a declared
\* label of the ordinal variable with the largest percentage among the
\* declared labels; the means row and the DK/NA row are never selected.
C15_DominantIsDeclaredLabel ==
    dpc = "returned" =>
        /\ DominantOf(answers.one, comparison.plurality1)
        /\ DominantOf(answers.two, comparison.plurality2)

=============================================================================
